---- MODULE Spec2Model ----
(***************************************************************************)
(* Model of the 2D electromagnetic world: wires (src/src/wire.py),         *)
(* circuits (src/src/circuit.py), fields (src/src/fields.py) and the       *)
(* World that places them and exposes compute and the show_* accessors     *)
(* (src/src/world.py).                                                     *)
(*                                                                         *)
(* Reals are modelled by integers: voltages and current components are     *)
(* small integers, the reference values of the tests are decimal           *)
(* mantissas with the power of ten named in the definition.                *)
(***************************************************************************)
EXTENDS Integers, Sequences, FiniteSets

\* ------------------------------------------------------------------ bounds
\* Extent of the world's grid (World.__init__ shape argument).
GridW == 2
GridH == 2
\* Number of wires a world holds before the model stops placing.
MaxPlace == 2
\* Largest coordinate of a wire end in the Wire harness.
MaxCoord == 3
\* Largest absolute vector component in the cross-product harness.
MaxVec == 2
\* Largest relaxation iteration count handed to compute.
MaxIter == 2
\* Largest entry of a shape in the World harness.
MaxExtent == 4

VARIABLES
    wires,            \* World.wires: list of placed wires
    circuits,         \* World.circuits: list of placed circuits
    wires_voltage,    \* World._wires_voltage: ScalarField over the grid
    wires_current,    \* World._wires_current: VectorField (3 components)
    potential,        \* World._potential, None until computed
    electric_field,   \* World._electric_field, None until computed
    magnetic_field,   \* World._magnetic_field, None until computed
    energy_flux,      \* World._energy_flux, None until computed
    lastOp,           \* the last call on the world: name, argument, outcome
    compute_status,   \* "never" | "failed" | "succeeded": compute's history
    wireArgs,         \* Wire harness: the start and stop handed to Wire
    wire,             \* Wire harness: the last Wire(...) construction
    selected,         \* Wire harness: cells selected by wire.position
    vecE, vecB,       \* cross harness: one cell of two VectorFields
    vecEF,            \* cross harness: the cell of E.cross(B)
    shape,            \* World harness: the shape handed to World
    world             \* World harness: the last World(shape) construction

vars == <<wires, circuits, wires_voltage, wires_current, potential,
          electric_field, magnetic_field, energy_flux, lastOp,
          compute_status, wireArgs, wire, selected, vecE, vecB, vecEF,
          shape, world>>

worldVars == <<wires, circuits, wires_voltage, wires_current, potential,
               electric_field, magnetic_field, energy_flux, lastOp,
               compute_status>>
wireVars == <<wireArgs, wire, selected>>
crossVars == <<vecE, vecB, vecEF>>
ctorVars == <<shape, world>>

\* Python's None, and a raised exception as a value; every object carries
\* its class so that isinstance is a comparison of class names.
None == [class |-> "None"]

Raised(exception) == [class |-> exception]

Abs(n) == IF n < 0 THEN 0 - n ELSE n

\* ------------------------------------------------------------ wire.py
\* Current(x, y, z=0): a NamedTuple, always three components.
Current(x, y) == <<x, y, 0>>

\* A constructor that takes every segment that is not vertical for a
\* horizontal one.
WireInit_unchecked(start, stop, current, voltage) ==
    LET vertical == start[1] = stop[1]
    IN  [class |-> "Wire", start |-> start, stop |-> stop,
         current |-> current,
         voltage |-> voltage, vertical |-> vertical,
         horizontal |-> ~vertical]

\* Wire.__init__: classifies the segment; raises ValueError when it is
\* neither vertical (same x) nor horizontal (same y).
WireInit(start, stop, current, voltage) ==
    LET vertical == start[1] = stop[1]
        horizontal == (~vertical) /\ start[2] = stop[2]
    IN  IF (~vertical) /\ (~horizontal)
        THEN Raised("ValueError")
        ELSE [class |-> "Wire", start |-> start, stop |-> stop,
              current |-> current,
              voltage |-> voltage, vertical |-> vertical,
              horizontal |-> horizontal]

IsWire(w) == w.class = "Wire"

\* slice(start, stop, step) of Python, and a plain int index.
Slice(start, stop, step) ==
    [kind |-> "slice", start |-> start, stop |-> stop, step |-> step]

IntIndex(i) == [kind |-> "int", value |-> i]

\* Wire.position: the fixed coordinate as an int, the varying coordinate as
\* a slice from start to stop + stop_smidgen.
Position(w) ==
    IF w.vertical
    THEN LET stop_smidgen == IF w.start[2] > w.stop[2] THEN 0 ELSE 1
             step == IF w.start[2] > w.stop[2] THEN 0 - 1 ELSE 1
         IN  [x |-> IntIndex(w.start[1]),
              y |-> Slice(w.start[2], w.stop[2] + stop_smidgen, step)]
    ELSE LET stop_smidgen == IF w.start[1] > w.stop[1] THEN 0 ELSE 1
             step == IF w.start[1] > w.stop[1] THEN 0 - 1 ELSE 1
         IN  [x |-> Slice(w.start[1], w.stop[1] + stop_smidgen, step),
              y |-> IntIndex(w.start[2])]

\* ---------------------------------------------- numpy indexing (fields.py)
\* The fields are numpy arrays (ScalarField and VectorField subclass
\* np.ndarray): an integer index must lie in -n .. n-1 and a negative one
\* counts from the end; a slice is clipped to the axis (slice.indices).
IndexInBounds(i, n) == (0 - n) <= i /\ i < n

NormIndex(i, n) == IF i < 0 THEN i + n ELSE i

ClipSlice(v, n, step) ==
    LET lower == IF step < 0 THEN 0 - 1 ELSE 0
        upper == IF step < 0 THEN n - 1 ELSE n
        v1 == IF v < 0 THEN v + n ELSE v
    IN  IF v < 0
        THEN (IF v1 < lower THEN lower ELSE v1)
        ELSE (IF v > upper THEN upper ELSE v)

\* The indices range(start, stop, step) of a clipped slice, step +1 or -1.
SliceIndices(sl, n) ==
    LET a == ClipSlice(sl.start, n, sl.step)
        b == ClipSlice(sl.stop, n, sl.step)
    IN  IF sl.step > 0
        THEN [i \in 1..(IF b > a THEN b - a ELSE 0) |-> a + (i - 1)]
        ELSE [i \in 1..(IF a > b THEN a - b ELSE 0) |-> a - (i - 1)]

IsSlice(p) == p.kind = "slice"

\* field[position] raises IndexError when the integer part of the index is
\* outside the axis.
IndexRaises(pos, w, h) ==
    \/ (~IsSlice(pos.x)) /\ ~IndexInBounds(pos.x.value, w)
    \/ (~IsSlice(pos.y)) /\ ~IndexInBounds(pos.y.value, h)

\* The cells field[position] selects on a (w, h) array, in index order.
SelectedCells(pos, w, h) ==
    IF IsSlice(pos.y)
    THEN LET ys == SliceIndices(pos.y, h)
         IN  [i \in 1..Len(ys) |-> <<NormIndex(pos.x.value, w), ys[i]>>]
    ELSE LET xs == SliceIndices(pos.x, w)
         IN  [i \in 1..Len(xs) |-> <<xs[i], NormIndex(pos.y.value, h)>>]

Range(s) == {s[i] : i \in 1..Len(s)}

\* ------------------------------------------------------------ circuit.py
\* Circuit.__init__ keeps the list it is given.
CircuitInit(ws) == [class |-> "Circuit", wires_ |-> ws]

\* Circuit.wires. The getter's text does not reach its return statement:
\* lines 13-20 build WIRES_A from Current, a name circuit.py never imports
\* (NameError), lines 22-38 fall back to class level and leave the return of
\* line 40 with an unexpected indent, so that the module does not compile
\* (IndentationError). Either way the getter raises.
Circuit_wires(c) == Raised("IndentationError")

\* ------------------------------------------------------------- fields.py
GridCells(w, h) == (0..(w - 1)) \X (0..(h - 1))

\* np.zeros(shape) and np.zeros((shape[0], shape[1], 3)).
ZerosScalar(w, h) == [c \in GridCells(w, h) |-> 0]
ZerosVector(w, h) == [c \in GridCells(w, h) |-> <<0, 0, 0>>]

\* field[position] = value: every selected cell takes the value.
SetCells(field, cells, value) ==
    [c \in DOMAIN field |-> IF c \in cells THEN value ELSE field[c]]

\* -------------------------------------------------------------- world.py
\* The part of the world that placement changes, and the call's outcome.
PlaceState(current, voltage, ws, cs) ==
    [current |-> current, voltage |-> voltage, wires |-> ws,
     circuits |-> cs, result |-> "ok"]

\* A placement that adds the wire's voltage to the cells instead of
\* overwriting them.
place_wire_accumulating(st, w) ==
    LET pos == Position(w)
    IN  IF IndexRaises(pos, GridW, GridH)
        THEN [st EXCEPT !.result = "IndexError"]
        ELSE LET cells == Range(SelectedCells(pos, GridW, GridH))
             IN  [st EXCEPT !.current = SetCells(@, cells, w.current),
                            !.voltage = [c \in DOMAIN @ |->
                                            IF c \in cells
                                            THEN @[c] + w.voltage
                                            ELSE @[c]],
                            !.wires = Append(@, w)]

\* A placement that appends the wire before it writes the fields.
place_wire_appending_first(st, w) ==
    LET pos == Position(w)
    IN  IF IndexRaises(pos, GridW, GridH)
        THEN [st EXCEPT !.wires = Append(@, w), !.result = "IndexError"]
        ELSE LET cells == Range(SelectedCells(pos, GridW, GridH))
             IN  [st EXCEPT !.current = SetCells(@, cells, w.current),
                            !.voltage = SetCells(@, cells, w.voltage),
                            !.wires = Append(@, w)]

\* World._place_wire on the boundary fields and the wire list: the current
\* is written first, then the voltage, then the wire is appended; the first
\* write raises IndexError before anything changed.
place_wire(st, w) ==
    LET pos == Position(w)
    IN  IF IndexRaises(pos, GridW, GridH)
        THEN [st EXCEPT !.result = "IndexError"]
        ELSE LET cells == Range(SelectedCells(pos, GridW, GridH))
             IN  [st EXCEPT !.current = SetCells(@, cells, w.current),
                            !.voltage = SetCells(@, cells, w.voltage),
                            !.wires = Append(@, w)]

\* The loop of World._place_circuit: stops at the first wire that raises.
RECURSIVE place_wires(_, _)
place_wires(st, ws) ==
    IF ws = <<>>
    THEN st
    ELSE LET st1 == place_wire(st, Head(ws))
         IN  IF st1.result # "ok" THEN st1 ELSE place_wires(st1, Tail(ws))

\* An object that is no Circuit and whose wires attribute is a list.
WiresHolder(ws) == [class |-> "object", wires_ |-> ws]

\* circuit.wires as World._place_circuit reads it: the getter of a Circuit,
\* the attribute of any other object.
AttrWires(c) ==
    IF c.class = "Circuit"
    THEN Circuit_wires(c)
    ELSE [class |-> "list", items |-> c.wires_]

\* World._place_circuit: reads circuit.wires, places each wire, appends the
\* circuit.
place_circuit(st, c) ==
    LET ws == AttrWires(c)
    IN  IF ws.class # "list"
        THEN [st EXCEPT !.result = ws.class]
        ELSE LET st1 == place_wires(st, ws.items)
             IN  IF st1.result = "ok"
                 THEN [st1 EXCEPT !.circuits = Append(@, c)]
                 ELSE st1

\* Number of wires an object would add to the world.
NbWires(an_object) ==
    IF an_object.class = "Wire" THEN 1
    ELSE IF an_object.class = "Circuit" THEN Len(an_object.wires_)
    ELSE 0

NoRender == <<>>

\* World.place: dispatches on the object's class; any other object is
\* ignored.
place(an_object) ==
    /\ Len(wires) + NbWires(an_object) <= MaxPlace
    /\ LET st == PlaceState(wires_current, wires_voltage, wires, circuits)
           out == IF an_object.class = "Wire"
                  THEN place_wire(st, an_object)
                  ELSE IF an_object.class = "Circuit"
                  THEN place_circuit(st, an_object)
                  ELSE st
       IN  /\ wires_current' = out.current
           /\ wires_voltage' = out.voltage
           /\ wires' = out.wires
           /\ circuits' = out.circuits
           /\ lastOp' = [op |-> "place", arg |-> an_object,
                         result |-> out.result, rendered |-> NoRender]
    /\ UNCHANGED <<potential, electric_field, magnetic_field, energy_flux,
                   compute_status>>
    /\ UNCHANGED <<wireVars, crossVars, ctorVars>>

\* World._place_circuit called on its own, with any object that has a wires
\* attribute.
place_circuit_call(circuit) ==
    /\ Len(wires) + Len(circuit.wires_) <= MaxPlace
    /\ Len(circuits) < MaxPlace
    /\ LET out == place_circuit(PlaceState(wires_current, wires_voltage,
                                           wires, circuits), circuit)
       IN  /\ wires_current' = out.current
           /\ wires_voltage' = out.voltage
           /\ wires' = out.wires
           /\ circuits' = out.circuits
           /\ lastOp' = [op |-> "_place_circuit", arg |-> circuit,
                         result |-> out.result, rendered |-> NoRender]
    /\ UNCHANGED <<potential, electric_field, magnetic_field, energy_flux,
                   compute_status>>
    /\ UNCHANGED <<wireVars, crossVars, ctorVars>>

\* A compute without the check of the wire list.
compute_unguarded(nb_relaxation_iterations) ==
    /\ lastOp' = [op |-> "compute", arg |-> None,
                  result |-> "NotImplementedError", rendered |-> NoRender]
    /\ compute_status' = "failed"
    /\ UNCHANGED <<wires, circuits, wires_voltage, wires_current, potential,
                   electric_field, magnetic_field, energy_flux>>
    /\ UNCHANGED <<wireVars, crossVars, ctorVars>>

\* World.compute: raises ValueError on a world without wires and
\* NotImplementedError otherwise; no branch assigns a derived field.
compute(nb_relaxation_iterations) ==
    /\ lastOp' = [op |-> "compute", arg |-> None,
                  result |-> IF wires = <<>>
                             THEN "ValueError"
                             ELSE "NotImplementedError",
                  rendered |-> NoRender]
    /\ compute_status' = "failed"
    /\ UNCHANGED <<wires, circuits, wires_voltage, wires_current, potential,
                   electric_field, magnetic_field, energy_flux>>
    /\ UNCHANGED <<wireVars, crossVars, ctorVars>>

\* The outcome of an accessor: how the call ended and the figures it drew.
Outcome(result, rendered) == [result |-> result, rendered |-> rendered]

\* A show that draws an absent field as if it were data.
FieldShow_drawing_none(field, title) == Outcome("ok", <<title>>)

\* field.show(title=...) on an attribute that may still be None: None has no
\* attribute show.
FieldShow(field, title) ==
    IF field.class = "None"
    THEN Outcome("AttributeError", NoRender)
    ELSE Outcome("ok", <<title>>)

\* A show_wires_voltage without the check of the wire list.
ShowWiresVoltage_unguarded == Outcome("ok", <<"Initial voltage">>)

\* World.show_wires_voltage
ShowWiresVoltage ==
    IF wires # <<>>
    THEN Outcome("ok", <<"Initial voltage">>)
    ELSE Outcome("EmptyWorldException", NoRender)

\* World.show_potential
ShowPotential ==
    IF wires # <<>>
    THEN FieldShow(potential, "Potential")
    ELSE Outcome("EmptyWorldException", NoRender)

\* World.show_electric_field: with hide_wires the field is first copied by
\* VectorField(self._electric_field), which reads field.shape and so raises
\* AttributeError on None; without it None.show raises.
ShowElectricField(hide_wires) ==
    IF wires # <<>>
    THEN IF hide_wires
         THEN IF electric_field.class = "None"
              THEN Outcome("AttributeError", NoRender)
              ELSE Outcome("ok", <<"Electric field">>)
         ELSE FieldShow(electric_field, "Electric field")
    ELSE Outcome("EmptyWorldException", NoRender)

\* World.show_magnetic_field: self._magnetic_field.z.show
ShowMagneticField ==
    IF wires # <<>>
    THEN FieldShow(magnetic_field, "Magnetic field (z component)")
    ELSE Outcome("EmptyWorldException", NoRender)

\* World.show_energy_flux
ShowEnergyFlux ==
    IF wires # <<>>
    THEN FieldShow(energy_flux, "Energy flux")
    ELSE Outcome("EmptyWorldException", NoRender)

\* Statements run one after the other: the first that raises ends the call,
\* the figures drawn before it stay drawn.
RECURSIVE RunInOrder(_)
RunInOrder(outcomes) ==
    IF outcomes = <<>>
    THEN Outcome("ok", NoRender)
    ELSE LET first == Head(outcomes)
         IN  IF first.result # "ok"
             THEN first
             ELSE LET rest == RunInOrder(Tail(outcomes))
                  IN  Outcome(rest.result, first.rendered \o rest.rendered)

\* World.show_all
ShowAll ==
    IF wires # <<>>
    THEN RunInOrder(<<ShowWiresVoltage, ShowPotential,
                      ShowElectricField(TRUE), ShowMagneticField,
                      ShowEnergyFlux>>)
    ELSE Outcome("EmptyWorldException", NoRender)

\* A call of an accessor: nothing of the world changes.
Accessor(name, arg, outcome) ==
    /\ lastOp' = [op |-> name, arg |-> arg, result |-> outcome.result,
                  rendered |-> outcome.rendered]
    /\ UNCHANGED <<wires, circuits, wires_voltage, wires_current, potential,
                   electric_field, magnetic_field, energy_flux,
                   compute_status>>
    /\ UNCHANGED <<wireVars, crossVars, ctorVars>>

show_wires_voltage == Accessor("show_wires_voltage", None, ShowWiresVoltage)

show_potential == Accessor("show_potential", None, ShowPotential)

show_electric_field(hide_wires) ==
    Accessor("show_electric_field", [class |-> "bool", value |-> hide_wires],
             ShowElectricField(hide_wires))

show_magnetic_field == Accessor("show_magnetic_field", None, ShowMagneticField)

show_energy_flux == Accessor("show_energy_flux", None, ShowEnergyFlux)

show_all == Accessor("show_all", None, ShowAll)

\* World.__init__ for a 2-tuple shape: empty lists, zero boundary fields,
\* derived fields None.
Init ==
    /\ wires = <<>>
    /\ circuits = <<>>
    /\ wires_voltage = ZerosScalar(GridW, GridH)
    /\ wires_current = ZerosVector(GridW, GridH)
    /\ magnetic_field = None
    /\ potential = None
    /\ electric_field = None
    /\ energy_flux = None
    /\ lastOp = [op |-> "__init__", arg |-> None, result |-> "ok",
                 rendered |-> NoRender]
    /\ compute_status = "never"
    /\ wireArgs = None
    /\ wire = None
    /\ selected = None
    /\ vecE = None
    /\ vecB = None
    /\ vecEF = None
    /\ shape = None
    /\ world = None

\* ------------------------------------------------------------- the inputs
Sgn(n) == IF n < 0 THEN 0 - 1 ELSE IF n > 0 THEN 1 ELSE 0

\* The tests' wires carry a unit current along the segment.
Direction(start, stop) ==
    Current(Sgn(stop[1] - start[1]), Sgn(stop[2] - start[2]))

VoltageInputs == {0 - 1, 1}

\* Ends of wires: every cell of the grid and one step beyond it.
EndInputs == (0..GridW) \X (0..GridH)

Constructed(start, stop, voltage) ==
    WireInit(start, stop, Direction(start, stop), voltage)

WireInputs ==
    {w \in {Constructed(s, t, v) : s \in EndInputs, t \in EndInputs,
                                   v \in VoltageInputs} : IsWire(w)}

\* The tests' circuit, scaled to the grid: a rectangular loop along the
\* border, its first half at the positive voltage, its second half at the
\* negative one.
LoopWires ==
    <<Constructed(<<0, 0>>, <<0, GridH - 1>>, 1),
      Constructed(<<0, GridH - 1>>, <<GridW - 1, GridH - 1>>, 1),
      Constructed(<<GridW - 1, GridH - 1>>, <<GridW - 1, 0>>, 0 - 1),
      Constructed(<<GridW - 1, 0>>, <<0, 0>>, 0 - 1)>>

\* Circuits: the example's empty wire list and the loop's prefixes.
CircuitInputs ==
    {CircuitInit(SubSeq(LoopWires, 1, k)) : k \in 0..Len(LoopWires)}

ObjectInputs == WireInputs \cup CircuitInputs \cup {None}

\* A menu of wires for the runs that place more of them: the wires that
\* leave the origin (positive voltage), the wires that arrive at it
\* (negative voltage), the loop, and one wire beyond each edge of the grid.
Origin == <<0, 0>>

WireMenu ==
    {w \in WireInputs :
        \/ w.start = Origin /\ w.voltage = 1
        \/ w.stop = Origin /\ w.start # Origin /\ w.voltage = 0 - 1
        \/ w \in Range(LoopWires)
        \/ w = Constructed(<<GridW, 0>>, <<GridW, GridH - 1>>, 1)
        \/ w = Constructed(<<0, GridH>>, <<GridW - 1, GridH>>, 0 - 1)}

MenuInputs == WireMenu \cup CircuitInputs \cup {None}

IterInputs == 1..MaxIter

\* The calls that do not place.
Calls ==
    \/ \E n \in IterInputs : compute(n)
    \/ show_wires_voltage
    \/ show_potential
    \/ \E hide_wires \in BOOLEAN : show_electric_field(hide_wires)
    \/ show_magnetic_field
    \/ show_energy_flux
    \/ show_all

Next ==
    \/ \E an_object \in MenuInputs : place(an_object)
    \/ Calls

Spec == Init /\ [][Next]_vars

\* The same world with every wire whose ends lie in EndInputs.
NextAll ==
    \/ \E an_object \in ObjectInputs : place(an_object)
    \/ Calls

SpecAll == Init /\ [][NextAll]_vars

\* The world with World._place_circuit called directly. Its wires: one up
\* the first column, one along the top row at the other voltage, which
\* shares a cell with it, and one beyond the right edge of the grid.
LoopWireInputs ==
    {Constructed(Origin, <<0, GridH - 1>>, 1),
     Constructed(<<0, GridH - 1>>, <<GridW - 1, GridH - 1>>, 0 - 1),
     Constructed(<<GridW, 0>>, <<GridW, GridH - 1>>, 1)}

HolderInputs ==
    {WiresHolder(ws) :
        ws \in UNION {[1..n -> LoopWireInputs] : n \in 0..MaxPlace}}

NextCircuit ==
    \/ \E an_object \in LoopWireInputs \cup CircuitInputs : place(an_object)
    \/ \E circuit \in HolderInputs : place_circuit_call(circuit)

SpecCircuit == Init /\ [][NextCircuit]_vars

\* ------------------------------------------------------- the Wire harness
\* Wire(start, stop, current, voltage), then wire.position used as the
\* index of an array large enough to hold every end.
HarnessExtent == MaxCoord + 1

HarnessEnds == (0..MaxCoord) \X (0..MaxCoord)

WireConstruct(start, stop) ==
    /\ wireArgs' = [class |-> "args", start |-> start, stop |-> stop]
    /\ wire' = Constructed(start, stop, 1)
    /\ selected' = None
    /\ UNCHANGED <<worldVars, crossVars, ctorVars>>

WirePosition ==
    /\ IsWire(wire)
    /\ selected' = [class |-> "cells",
                    items |-> SelectedCells(Position(wire), HarnessExtent,
                                            HarnessExtent)]
    /\ UNCHANGED <<wireArgs, wire, worldVars, crossVars, ctorVars>>

NextWire ==
    \/ \E start \in HarnessEnds, stop \in HarnessEnds :
          WireConstruct(start, stop)
    \/ WirePosition

SpecWire == Init /\ [][NextWire]_vars

\* ------------------------------------------------------ the cross harness
\* np.cross along the last axis, one cell at a time: a 2-component vector
\* counts as (x, y, 0). The second operand is the 3-component magnetic
\* field.
Pad3(v) == IF Len(v) = 2 THEN <<v[1], v[2], 0>> ELSE v

\* The cross product with its operands exchanged.
Cross_swapped(a, b) ==
    LET u == Pad3(b)
        v == Pad3(a)
    IN  <<u[2] * v[3] - u[3] * v[2],
          u[3] * v[1] - u[1] * v[3],
          u[1] * v[2] - u[2] * v[1]>>

\* VectorField.cross, at one cell.
Cross(a, b) ==
    LET u == Pad3(a)
        v == Pad3(b)
    IN  <<u[2] * v[3] - u[3] * v[2],
          u[3] * v[1] - u[1] * v[3],
          u[1] * v[2] - u[2] * v[1]>>

\* The centre values the tests assert, as decimal mantissas:
\* E = (-7.11430498e-11, -4.42911963e-01) in units of 1e-4,
\* B = (0, 0, -4.71199948e-08) in units of 1e-11,
\* EF = (1.66078258e-02, -2.66764386e-12, 0) in units of 1e-6,
\* and mu_0 = 1.25663706e-06 in units of 1e-10.
TrueEx == 0
TrueEy == 0 - 4429
TrueBz == 0 - 4712
TrueEFx == 16608
TrueEFy == 0
Mu0 == 12566

TrueE == <<TrueEx, TrueEy>>
TrueB == <<0, 0, TrueBz>>

Vector(v) == [class |-> "vector", v |-> v]

VecRange == (0 - MaxVec)..MaxVec

EInputs ==
    {<<x, y>> : x \in VecRange, y \in VecRange}
        \cup {<<x, y, 0>> : x \in VecRange, y \in VecRange}

BInputs == {<<bx, 0, bz>> : bx \in 0..1, bz \in VecRange}

CrossInputs == (EInputs \X BInputs) \cup {<<TrueE, TrueB>>}

\* Two fields' values at a cell.
CrossOperands(e, b) ==
    /\ vecE' = Vector(e)
    /\ vecB' = Vector(b)
    /\ vecEF' = None
    /\ UNCHANGED <<worldVars, wireVars, ctorVars>>

\* E.cross(B) at that cell.
CrossApply ==
    /\ vecE.class = "vector"
    /\ vecEF' = Vector(Cross(vecE.v, vecB.v))
    /\ UNCHANGED <<vecE, vecB, worldVars, wireVars, ctorVars>>

NextCross ==
    \/ \E p \in CrossInputs : CrossOperands(p[1], p[2])
    \/ CrossApply

SpecCross == Init /\ [][NextCross]_vars

\* ================================================================ claims
AccessorNames ==
    {"show_wires_voltage", "show_potential", "show_electric_field",
     "show_magnetic_field", "show_energy_flux", "show_all"}

DerivedAccessorNames ==
    {"show_potential", "show_electric_field", "show_magnetic_field",
     "show_energy_flux"}

DerivedAllNone ==
    /\ potential.class = "None"
    /\ electric_field.class = "None"
    /\ magnetic_field.class = "None"
    /\ energy_flux.class = "None"

\* The cells of the world's grid a placed wire's position selects.
CellsOf(w) == Range(SelectedCells(Position(w), GridW, GridH))

\* The index of the varying coordinate of a wire, 1 for x and 2 for y.
Varying(w) == IF w.start[1] # w.stop[1] THEN 1 ELSE 2

OneCoordinateDiffers(w) ==
    (w.start[1] # w.stop[1]) # (w.start[2] # w.stop[2])

\* C1: for a wire whose start and stop differ in exactly one coordinate, in
\* either direction, the cells selected by its position are |delta|+1 cells
\* that begin at start, end at stop, and advance by one step of the varying
\* coordinate towards stop from each cell to the next.
C1_PositionWalksStartToStop ==
    (IsWire(wire) /\ selected.class = "cells" /\ OneCoordinateDiffers(wire))
    => LET items == selected.items
           k == Varying(wire)
           delta == wire.stop[k] - wire.start[k]
       IN  /\ Len(items) = Abs(delta) + 1
           /\ items[1] = wire.start
           /\ items[Len(items)] = wire.stop
           /\ \A i \in 1..(Len(items) - 1) :
                 /\ items[i + 1][k] = items[i][k] + Sgn(delta)
                 /\ items[i + 1][3 - k] = items[i][3 - k]

\* C2: on a world with at least one wire, compute with a positive iteration
\* count returns without raising and leaves the four derived fields defined.
C2_ComputeSucceedsWithWires ==
    (lastOp.op = "compute" /\ wires # <<>>)
    => /\ lastOp.result = "ok"
       /\ potential.class # "None"
       /\ electric_field.class # "None"
       /\ magnetic_field.class # "None"
       /\ energy_flux.class # "None"

\* C3: on a world whose wire list is empty, compute fails with the no-wires
\* error (ValueError), and the failing call leaves the boundary fields and
\* the wire and circuit lists as they were and the derived fields None.
C3_ComputeFailsWithoutWires ==
    [][(wires = <<>> /\ lastOp'.op = "compute")
       => /\ lastOp'.result = "ValueError"
          /\ UNCHANGED <<wires, circuits, wires_voltage, wires_current>>
          /\ potential'.class = "None"
          /\ electric_field'.class = "None"
          /\ magnetic_field'.class = "None"
          /\ energy_flux'.class = "None"]_vars

C3_Witness ==
    /\ wires = <<>>
    /\ lastOp.op = "compute"
    /\ lastOp.result = "ValueError"

\* C4: on a world whose wire list is empty, every accessor fails with
\* EmptyWorldException and draws nothing, compute called before or not.
C4_AccessorsFailOnEmptyWorld ==
    (wires = <<>> /\ lastOp.op \in AccessorNames)
    => /\ lastOp.result = "EmptyWorldException"
       /\ lastOp.rendered = NoRender

C4_Witness ==
    /\ wires = <<>>
    /\ compute_status = "failed"
    /\ lastOp.op = "show_all"
    /\ lastOp.result = "EmptyWorldException"

\* The wires of the list whose position selects a cell.
Writers(c) == {i \in 1..Len(wires) : c \in CellsOf(wires[i])}

Last(S) == CHOOSE i \in S : \A j \in S : j <= i

\* C5: every cell of the voltage and current fields holds the voltage and
\* the current of the last wire of the list whose position selects the
\* cell, and zero where no placed wire's position selects it.
C5_LastWriteWins ==
    \A c \in GridCells(GridW, GridH) :
        IF Writers(c) = {}
        THEN /\ wires_voltage[c] = 0
             /\ wires_current[c] = <<0, 0, 0>>
        ELSE /\ wires_voltage[c] = wires[Last(Writers(c))].voltage
             /\ wires_current[c] = wires[Last(Writers(c))].current

C5_Witness ==
    /\ lastOp.op = "place"
    /\ lastOp.result = "ok"
    /\ \E c \in GridCells(GridW, GridH) :
          /\ Writers(c) = {1, 2}
          /\ wires[1].voltage # wires[2].voltage
          /\ wires[1].current # wires[2].current
    /\ \E c \in GridCells(GridW, GridH) : Writers(c) = {}

\* C6: after compute on a world with at least one wire, the potential at
\* every cell a placed wire covers equals the voltage field at that cell.
C6_WireCellsPinned ==
    (lastOp.op = "compute" /\ wires # <<>>)
    => /\ potential.class = "ScalarField"
       /\ \A c \in GridCells(GridW, GridH) :
             Writers(c) # {} => potential.data[c] = wires_voltage[c]

\* C7: place does not fail for a successfully constructed Wire, whether or
\* not its cells lie inside the world's grid.
C7_PlaceWireNeverFails ==
    (lastOp.op = "place" /\ lastOp.arg.class = "Wire")
    => lastOp.result = "ok"

\* C8: once a circuit of wires that fit the grid is placed, the circuit is
\* the last element of world.circuits and its wires, in the order of the
\* list given to its constructor, are the last elements of world.wires.
C8_CircuitAppended ==
    (/\ lastOp.op = "place"
     /\ lastOp.arg.class = "Circuit"
     /\ \A i \in 1..Len(lastOp.arg.wires_) :
           ~IndexRaises(Position(lastOp.arg.wires_[i]), GridW, GridH))
    => LET n == Len(lastOp.arg.wires_)
       IN  /\ circuits # <<>>
           /\ circuits[Len(circuits)] = lastOp.arg
           /\ Len(wires) >= n
           /\ SubSeq(wires, Len(wires) - n + 1, Len(wires))
                 = lastOp.arg.wires_

\* C9: while compute has never succeeded, the four derived fields are None,
\* and on a world with wires each derived-field accessor fails without
\* drawing anything.
C9_NoDerivedFieldBeforeCompute ==
    compute_status # "succeeded"
    => /\ DerivedAllNone
       /\ (wires # <<>> /\ lastOp.op \in DerivedAccessorNames)
          => /\ lastOp.result # "ok"
             /\ lastOp.rendered = NoRender

C9_Witness ==
    /\ wires # <<>>
    /\ compute_status = "failed"
    /\ lastOp.op = "show_electric_field"
    /\ lastOp.arg.value = TRUE
    /\ lastOp.result = "AttributeError"

CrossDone == vecEF.class = "vector"

InPlane == vecB.v[1] = 0 /\ vecB.v[2] = 0

TrueOperands == vecE.v = TrueE /\ vecB.v = TrueB

\* E x B of (E_x, E_y, 0) and (0, 0, B_z): (E_y*B_z, -E_x*B_z, 0).
CrossInPlane ==
    vecEF.v = <<vecE.v[2] * vecB.v[3], 0 - (vecE.v[1] * vecB.v[3]), 0>>

WorldInit_min_arity(sh) ==
    IF sh.class # "tuple"
    THEN Raised("ValueError")
    ELSE IF Len(sh.items) < 2
    THEN Raised("ValueError")
    ELSE [class |-> "World",
          wires |-> <<>>,
          circuits |-> <<>>,
          wires_voltage |-> ZerosScalar(sh.items[1], sh.items[2]),
          wires_current |-> ZerosVector(sh.items[1], sh.items[2]),
          magnetic_field |-> None,
          potential |-> None,
          electric_field |-> None,
          energy_flux |-> None]

\* World.__init__: ValueError for a shape that is not a tuple or not of
\* length 2; otherwise empty lists, zero boundary fields of the shape's
\* extent and derived fields None.
WorldInit(sh) ==
    IF sh.class # "tuple"
    THEN Raised("ValueError")
    ELSE IF Len(sh.items) # 2
    THEN Raised("ValueError")
    ELSE [class |-> "World",
          wires |-> <<>>,
          circuits |-> <<>>,
          wires_voltage |-> ZerosScalar(sh.items[1], sh.items[2]),
          wires_current |-> ZerosVector(sh.items[1], sh.items[2]),
          magnetic_field |-> None,
          potential |-> None,
          electric_field |-> None,
          energy_flux |-> None]

\* Shapes: tuples and lists of zero to three positive integers.
ShapeInputs ==
    {[class |-> k, items |-> it] :
        k \in {"tuple", "list"},
        it \in UNION {[1..n -> 1..MaxExtent] : n \in 0..3}}

\* World(shape)
WorldConstruct(sh) ==
    /\ shape' = sh
    /\ world' = WorldInit(sh)
    /\ UNCHANGED <<worldVars, wireVars, crossVars>>

NextWorld == \E sh \in ShapeInputs : WorldConstruct(sh)

SpecWorld == Init /\ [][NextWorld]_vars

\* C11: Wire(start, stop, ...) fails with an error and yields no wire when
\* start and stop differ in both coordinates, and yields a wire from start
\* to stop when they differ in exactly one; the wire is vertical when
\* x0 = x1, and otherwise horizontal when y0 = y1.
C11_ConstructionClassifies ==
    wireArgs.class = "args"
    => LET sameX == wireArgs.start[1] = wireArgs.stop[1]
           sameY == wireArgs.start[2] = wireArgs.stop[2]
       IN  /\ ((~sameX) /\ (~sameY)) => wire.class = "ValueError"
           /\ (sameX # sameY)
              => /\ IsWire(wire)
                 /\ wire.start = wireArgs.start
                 /\ wire.stop = wireArgs.stop
           /\ IsWire(wire)
              => /\ wire.vertical = sameX
                 /\ wire.horizontal = ((~sameX) /\ sameY)

C11_Witness ==
    /\ wireArgs.class = "args"
    /\ wireArgs.start[1] # wireArgs.stop[1]
    /\ wireArgs.start[2] # wireArgs.stop[2]
    /\ wire.class = "ValueError"

\* C12: World(shape) with a tuple of two positive integers yields a world
\* with empty wire and circuit lists, all-zero voltage and current fields
\* over the shape's extent and derived fields None; with a shape of any
\* other length it fails with an error and yields no world.
C12_WorldConstruction ==
    shape.class = "tuple"
    => /\ Len(shape.items) = 2
          => /\ world.class = "World"
             /\ world.wires = <<>>
             /\ world.circuits = <<>>
             /\ DOMAIN world.wires_voltage
                   = (0..(shape.items[1] - 1)) \X (0..(shape.items[2] - 1))
             /\ DOMAIN world.wires_current = DOMAIN world.wires_voltage
             /\ \A c \in DOMAIN world.wires_voltage :
                   /\ world.wires_voltage[c] = 0
                   /\ world.wires_current[c] = <<0, 0, 0>>
             /\ world.potential.class = "None"
             /\ world.electric_field.class = "None"
             /\ world.magnetic_field.class = "None"
             /\ world.energy_flux.class = "None"
       /\ Len(shape.items) # 2 => world.class = "ValueError"

C12_Witness ==
    /\ shape.class = "tuple"
    /\ Len(shape.items) = 3
    /\ world.class = "ValueError"

\* The wires of a list before its first wire that does not fit the grid.
FirstRaising(ws) ==
    CHOOSE k \in 1..Len(ws) :
        /\ IndexRaises(Position(ws[k]), GridW, GridH)
        /\ \A j \in 1..(k - 1) : ~IndexRaises(Position(ws[j]), GridW, GridH)

\* The wires of a list whose position selects a cell.
WritersIn(ws, c) == {i \in 1..Len(ws) : c \in CellsOf(ws[i])}

\* C13: a wire placement that raises leaves the voltage and current fields
\* and the wire and circuit lists as they were; when the placement of a
\* circuit raises at its k-th wire, exactly its first k-1 wires are placed
\* (appended, their cells written, last wire winning) and the circuit is
\* not appended.
C13_FailedPlacementFrame ==
    [][(lastOp'.op \in {"place", "_place_circuit"}
            /\ lastOp'.result = "IndexError")
       => IF lastOp'.arg.class = "Wire"
          THEN UNCHANGED <<wires_voltage, wires_current, wires, circuits>>
          ELSE LET ws == lastOp'.arg.wires_
                   placed == SubSeq(ws, 1, FirstRaising(ws) - 1)
               IN  /\ \E k \in 1..Len(ws) :
                         IndexRaises(Position(ws[k]), GridW, GridH)
                   /\ wires' = wires \o placed
                   /\ circuits' = circuits
                   /\ \A c \in GridCells(GridW, GridH) :
                         IF WritersIn(placed, c) = {}
                         THEN /\ wires_voltage'[c] = wires_voltage[c]
                              /\ wires_current'[c] = wires_current[c]
                         ELSE LET w == placed[Last(WritersIn(placed, c))]
                              IN  /\ wires_voltage'[c] = w.voltage
                                  /\ wires_current'[c] = w.current]_vars

C13_Witness ==
    /\ lastOp.op = "_place_circuit"
    /\ lastOp.result = "IndexError"
    /\ Len(lastOp.arg.wires_) = 2
    /\ ~IndexRaises(Position(lastOp.arg.wires_[1]), GridW, GridH)
    /\ wires = <<lastOp.arg.wires_[1]>>
    /\ wires_voltage[Origin] = lastOp.arg.wires_[1].voltage
    /\ circuits = <<>>

====
